---- MODULE Spec2Model ----
(***************************************************************************)
(* Model of src/graphics/backend_wgpu/texture.rs: the Texture and Drawable *)
(* handles, the texture array builder (create_texture_array) and the       *)
(* pixel readback (Drawable::read_pixels), together with the part of the   *)
(* wgpu device the file drives: the submission queue, the asynchronous     *)
(* buffer mapping and the blocking poll.                                   *)
(*                                                                         *)
(* One GPU texture is built by one of the three constructors, its handles  *)
(* are cloned and dropped, and, when it is a Drawable, solid fills are     *)
(* recorded into the caller's command stream and read_pixels is called.    *)
(***************************************************************************)
EXTENDS Integers, Sequences, FiniteSets

\* ------------------------------------------------------------------ bounds
\* Largest width and height of the small images and drawables.
MaxDim == 2
\* Longest list of images given to Texture::new_array (besides the long lists).
MaxLayers == 2
\* Most live handles of the texture at once.
MaxHandles == 2
\* Most read_pixels calls in one behaviour.
MaxReads == 2
\* Most fill commands the caller records in one behaviour.
MaxFills == 1

\* ------------------------------------------------------- program constants
\* Number of values of a u16 (the type of Texture.width, height and layers).
U16 == 65536
\* Bytes per pixel of the Bgra8 format ("4 *" in buffer_size and row_pitch).
BytesPerPixel == 4

\* `x as u16`: the narrowing cast keeps the low 16 bits.
AsU16(x) == x % U16

\* ------------------------------------------------------------------ inputs
\* Colours as R,G,B,A components.
Colors == { <<255, 0, 0, 255>>, <<0, 64, 255, 128>> }

\* What a freshly allocated texture or buffer may hold: its memory is not
\* initialised, so every byte is one of these.
GarbageBytes == { 0, 205 }

\* Pixel i (1-based, row-major) of the image patterns used as inputs.
PatternPixel(pat, i) ==
    IF pat = "red" THEN <<255, 0, 0, 255>>
    ELSE IF pat = "blue" THEN <<0, 64, 255, 128>>
    ELSE <<(i * 16) % 256, (i * 32 + 1) % 256, (i * 48 + 2) % 256, 255>>

Patterns == { "red", "blue", "ramp" }

\* An image::DynamicImage: RGBA pixels, row-major.
Image(w, h, pat) ==
    [width |-> w, height |-> h, pixels |-> [i \in 1 .. w * h |-> PatternPixel(pat, i)]]

\* Dimensions around the u16 limit.
WideDims == { U16 - 1, U16, U16 + 1 }

\* List lengths that do not fit 16 bits.
LongCounts == { U16 }

SmallImages == { Image(w, h, pat) : w \in 0 .. MaxDim, h \in 0 .. MaxDim, pat \in Patterns }

\* Images whose width or height does not fit 16 bits. They have no rows (or
\* no columns), so that their byte vectors stay small.
WideImages ==
    { Image(w, 0, "red") : w \in WideDims } \cup { Image(0, h, "blue") : h \in WideDims }

Images == SmallImages \cup WideImages

\* The images the lists of new_array are made of.
LayerImages == { Image(1, 1, "red"), Image(1, 1, "blue"), Image(2, 1, "ramp") }

\* Lists of images for new_array: every short list, and lists of one empty
\* image whose length does not fit 16 bits.
ShortLists == UNION { [1 .. n -> LayerImages] : n \in 0 .. MaxLayers }

LongLists == { [i \in 1 .. n |-> Image(0, 0, "blue")] : n \in LongCounts }

\* ----------------------------------------------------------- pure helpers
\* image.to_bgra(): each pixel's channels reordered to B,G,R,A; into_raw()
\* is the byte vector of the result.
ToBgra(image) ==
    [width |-> image.width, height |-> image.height,
     raw |-> [k \in 1 .. BytesPerPixel * image.width * image.height |->
                LET p == image.pixels[((k - 1) \div BytesPerPixel) + 1]
                    c == (k - 1) % BytesPerPixel
                IN  IF c = 0 THEN p[3] ELSE IF c = 1 THEN p[2]
                    ELSE IF c = 2 THEN p[1] ELSE p[4]]]

\* layers.iter().flatten().collect(): the buffers lo..hi concatenated in order.
RECURSIVE FlattenRange(_, _, _)
FlattenRange(layers, lo, hi) ==
    IF lo > hi THEN << >>
    ELSE IF lo = hi THEN layers[lo]
    ELSE LET mid == (lo + hi) \div 2
         IN  FlattenRange(layers, lo, mid) \o FlattenRange(layers, mid + 1, hi)

Flatten(layers) == FlattenRange(layers, 1, Len(layers))

\* ------------------------------------------------------------- GPU memory
\* The bytes of one texel of a Bgra8 texture that holds colour c (R,G,B,A).
TexelBytes(c) == << c[3], c[2], c[1], c[4] >>

\* Size in bytes of one layer of a texture of the given extent.
LayerBytes(size) == BytesPerPixel * size.width * size.height

\* Texture memory right after allocation: the layers one after the other,
\* every byte g.
UninitData(size, layer_count, g) ==
    [k \in 1 .. layer_count * LayerBytes(size) |-> g]

\* Index (1-based) in the texture's memory of channel ch of texel (x, y) of
\* array layer l.
TexelIndex(size, l, x, y, ch) ==
    l * LayerBytes(size) + (y * size.width + x) * BytesPerPixel + ch + 1

\* A render pass into the target view that fills it with colour c: every
\* texel of layer 0 becomes c in the texture's byte layout.
FillLayer(tex, c) ==
    [tex EXCEPT !.data =
        [k \in 1 .. Len(tex.data) |->
            IF k <= LayerBytes(tex.size)
            THEN TexelBytes(c)[((k - 1) % BytesPerPixel) + 1]
            ELSE tex.data[k]]]

\* copy_buffer_to_texture executed: the texels of the extent are read from
\* the buffer at offset + (z * image_height + y) * row_pitch + 4 * x. The
\* copy starts at array layer array_layer and is extent.depth slices deep, so
\* with depth 1 it writes that one layer and nothing else.
CopyBufferToTexture(tex, cmd) ==
    [tex EXCEPT !.data =
        [k \in 1 .. Len(tex.data) |->
            LET l  == (k - 1) \div LayerBytes(tex.size)
                t  == ((k - 1) % LayerBytes(tex.size)) \div BytesPerPixel
                ch == (k - 1) % BytesPerPixel
                x  == t % tex.size.width
                y  == t \div tex.size.width
                z  == l - cmd.array_layer
            IN  IF /\ l >= cmd.array_layer /\ l < cmd.array_layer + cmd.extent.depth
                   /\ x < cmd.extent.width /\ y < cmd.extent.height
                THEN cmd.buffer[cmd.offset + (z * cmd.image_height + y) * cmd.row_pitch
                                + BytesPerPixel * x + ch + 1]
                ELSE tex.data[k]]]

\* copy_texture_to_buffer executed: byte offset + y * row_pitch + 4 * x + ch
\* of the buffer becomes channel ch of texel (x, y) of layer array_layer.
CopyTextureToBuffer(buf, tex, cmd) ==
    [buf EXCEPT !.data =
        [j \in 1 .. buf.size |->
            LET o  == j - 1 - cmd.offset
                y  == o \div cmd.row_pitch
                x  == (o % cmd.row_pitch) \div BytesPerPixel
                ch == (o % cmd.row_pitch) % BytesPerPixel
            IN  IF o >= 0 /\ y < cmd.extent.height /\ x < cmd.extent.width
                THEN tex.data[TexelIndex(tex.size, cmd.array_layer, x, y, ch)]
                ELSE buf.data[j]]]

\* The texture after the device executed cmd.
TextureAfter(tex, cmd) ==
    IF cmd.op = "fill" THEN FillLayer(tex, cmd.color)
    ELSE IF cmd.op = "copy_buffer_to_texture" THEN CopyBufferToTexture(tex, cmd)
    ELSE tex

\* The staging buffer of read_pixels after the device executed cmd.
BufferAfter(buf, tex, cmd) ==
    IF cmd.op = "copy_texture_to_buffer" THEN CopyTextureToBuffer(buf, tex, cmd)
    ELSE buf

\* ------------------------------------------------------------------ state
VARIABLES
    ctor,       \* the constructor call made: its kind and its argument's sizes
    texture,    \* the wgpu::Texture: extent, layer count, usage, memory
    view,       \* the wgpu::TextureView created over the texture
    binding,    \* the quad::TextureBinding the pipeline made of the view
    rc,         \* strong counts of the three Rc's (raw, view, binding)
    handles,    \* the live Texture values: width, height, layers
    encoder,    \* the caller's command stream, not yet finished
    queue,      \* command buffers submitted and not yet executed
    submitted,  \* every command buffer submitted so far
    pc,         \* where the caller is in read_pixels
    call,       \* the running read_pixels call: its handle and its stream
    buffer,     \* the staging buffer of the running read_pixels call
    mapping,    \* the map_read_async request and the result given to its callback
    pixels,     \* the shared result cell Rc<RefCell<Option<Vec<u8>>>>
    progressed, \* whether the device made progress since poll was entered
    hung,       \* whether the device stopped making progress
    results     \* the images read_pixels returned, in order

vars == << ctor, texture, view, binding, rc, handles, encoder, queue, submitted,
           pc, call, buffer, mapping, pixels, progressed, hung, results >>

NoExtent == [width |-> 0, height |-> 0, depth |-> 0]

NoTexture == [exists |-> FALSE, size |-> NoExtent, array_layer_count |-> 0,
              usage |-> {}, data |-> << >>]

NoView == [exists |-> FALSE, array_count |-> 0, base_array_layer |-> 0]

NoBinding == [exists |-> FALSE, array_count |-> 0]

NoBuffer == [exists |-> FALSE, size |-> 0, data |-> << >>]

NoCall == [self |-> 0, stream |-> << >>]

NoMapping == [pending |-> FALSE, offset |-> 0, size |-> 0, result |-> "none"]

EmptyCell == [some |-> FALSE, data |-> << >>]

Init ==
    /\ ctor = [kind |-> "none", width |-> 0, height |-> 0, count |-> 0]
    /\ texture = NoTexture
    /\ view = NoView
    /\ binding = NoBinding
    /\ rc = [raw |-> 0, view |-> 0, binding |-> 0]
    /\ handles = << >>
    /\ encoder = << >>
    /\ queue = << >>
    /\ submitted = << >>
    /\ pc = "idle"
    /\ call = NoCall
    /\ buffer = NoBuffer
    /\ mapping = NoMapping
    /\ pixels = EmptyCell
    /\ progressed = FALSE
    /\ hung = FALSE
    /\ results = << >>

\* ------------------------------------------------------------ constructors
UploadUsage == { "TRANSFER_DST", "SAMPLED" }

DrawableUsage == { "OUTPUT_ATTACHMENT", "SAMPLED", "TRANSFER_SRC" }

\* create_texture_array: the texture, its view and binding, and the command
\* buffers it submitted. has_layers is whether `layers` is Some. What the new
\* texture's memory holds is chosen where the texture enters the state (Built).
CreateTextureArray(width, height, has_layers, layers, usage) ==
    LET extent == [width |-> width, height |-> height, depth |-> 1]
        layer_count == IF has_layers THEN Len(layers) ELSE 1
        slice == Flatten(layers)
        copy == [op |-> "copy_buffer_to_texture",
                 buffer |-> slice, offset |-> 0,
                 row_pitch |-> BytesPerPixel * width, image_height |-> height,
                 array_layer |-> 0, mip_level |-> 0, extent |-> extent]
    IN  [texture |-> [exists |-> TRUE, size |-> extent, array_layer_count |-> layer_count,
                      usage |-> usage, data |-> << >>],
         submits |-> IF has_layers THEN << << copy >> >> ELSE << >>,
         view |-> [exists |-> TRUE, array_count |-> layer_count, base_array_layer |-> 0],
         binding |-> [exists |-> TRUE, array_count |-> layer_count]]

\* The state a constructor leaves: the built resources, each in a new Rc, and
\* the one Texture value returned. device.create_texture does not initialise
\* the texture's memory: it holds some garbage g.
Built(kind, arg, made, handle) ==
    /\ ctor' = [kind |-> kind, width |-> arg.width, height |-> arg.height, count |-> arg.count]
    /\ \E g \in GarbageBytes :
          texture' = [made.texture EXCEPT
                        !.data = UninitData(made.texture.size, made.texture.array_layer_count, g)]
    /\ view' = made.view
    /\ binding' = made.binding
    /\ rc' = [raw |-> 1, view |-> 1, binding |-> 1]
    /\ handles' = << handle >>
    /\ queue' = queue \o made.submits
    /\ submitted' = submitted \o made.submits
    /\ UNCHANGED << encoder, pc, call, buffer, mapping, pixels, progressed, hung, results >>

\* Texture::new
TextureNew(image) ==
    /\ ctor.kind = "none"
    /\ LET bgra == ToBgra(image)
           width == AsU16(bgra.width)
           height == AsU16(bgra.height)
           made == CreateTextureArray(width, height, TRUE, << bgra.raw >>, UploadUsage)
       IN  Built("new", [width |-> image.width, height |-> image.height, count |-> 1], made,
                 [width |-> width, height |-> height, layers |-> 1])

\* Texture::new_array
TextureNewArray(layers) ==
    /\ ctor.kind = "none"
    /\ IF Len(layers) = 0
       THEN \* layers[0] is out of bounds: the call panics and builds nothing
            /\ ctor' = [kind |-> "panicked", width |-> 0, height |-> 0, count |-> 0]
            /\ UNCHANGED << texture, view, binding, rc, handles, encoder, queue, submitted,
                            pc, call, buffer, mapping, pixels, progressed, hung, results >>
       ELSE LET first_layer == ToBgra(layers[1])
                width == AsU16(first_layer.width)
                height == AsU16(first_layer.height)
                raw_layers == [i \in 1 .. Len(layers) |-> ToBgra(layers[i]).raw]
                made == CreateTextureArray(width, height, TRUE, raw_layers, UploadUsage)
            IN  Built("new_array",
                      [width |-> layers[1].width, height |-> layers[1].height,
                       count |-> Len(layers)],
                      made,
                      [width |-> width, height |-> height, layers |-> AsU16(Len(layers))])

\* Drawable::new
DrawableNew(width, height) ==
    /\ ctor.kind = "none"
    /\ LET made == CreateTextureArray(width, height, FALSE, << >>, DrawableUsage)
       IN  Built("drawable", [width |-> width, height |-> height, count |-> 1], made,
                 [width |-> width, height |-> height, layers |-> 1])

\* ------------------------------------------------------------------ device
\* The device executes the next command of the oldest submitted command
\* buffer; the submission is complete, and the device has made progress, when
\* its last command is done.
DeviceExecute ==
    /\ queue # << >>
    /\ ~hung
    /\ LET cmds == Head(queue)
           cmd == Head(cmds)
       IN  /\ texture' = TextureAfter(texture, cmd)
           /\ buffer' = BufferAfter(buffer, texture, cmd)
           /\ queue' = IF Len(cmds) = 1 THEN Tail(queue) ELSE << Tail(cmds) >> \o Tail(queue)
           /\ progressed' = (progressed \/ (pc = "poll" /\ Len(cmds) = 1))
    /\ UNCHANGED << ctor, view, binding, rc, handles, encoder, submitted, pc, call,
                    mapping, pixels, hung, results >>

\* The device runs the callback of the pending map_read_async: with the
\* mapped bytes when the mapping succeeded, with an error when it failed.
\* Callbacks run inside poll, once the submissions before the request are done.
DeviceFireCallback(ok) ==
    /\ pc = "poll"
    /\ mapping.pending
    /\ queue = << >>
    /\ ~hung
    /\ pixels' = IF ok
                 THEN [some |-> TRUE,
                       data |-> SubSeq(buffer.data, mapping.offset + 1,
                                       mapping.offset + mapping.size)]
                 ELSE [some |-> TRUE, data |-> << >>]
    /\ mapping' = [mapping EXCEPT !.pending = FALSE,
                                  !.result = IF ok THEN "ok" ELSE "err"]
    /\ progressed' = TRUE
    /\ UNCHANGED << ctor, texture, view, binding, rc, handles, encoder, queue, submitted,
                    pc, call, buffer, hung, results >>

\* The device stops making progress while it has work to do.
DeviceHang ==
    /\ ~hung
    /\ queue # << >> \/ mapping.pending
    /\ hung' = TRUE
    /\ UNCHANGED << ctor, texture, view, binding, rc, handles, encoder, queue, submitted,
                    pc, call, buffer, mapping, pixels, progressed, results >>

\* device.poll(true) returns: it blocked until the device made progress.
PollReturn ==
    /\ pc = "poll"
    /\ progressed
    /\ pc' = "polled"
    /\ UNCHANGED << ctor, texture, view, binding, rc, handles, encoder, queue, submitted,
                    call, buffer, mapping, pixels, progressed, hung, results >>

\* ----------------------------------------------------------------- handles
\* A resource dropped with any handle, whatever the count.
ReleasedOnAnyDrop(res, count) == [res EXCEPT !.exists = FALSE]

\* A resource held in an Rc whose strong count became `count`: it is dropped
\* when the count reaches zero.
Released(res, count) ==
    IF count = 0 THEN [res EXCEPT !.exists = FALSE] ELSE res

\* #[derive(Clone)]: the three Rc's are cloned, the numbers copied.
Clone(i) ==
    /\ pc = "idle"
    /\ i \in 1 .. Len(handles)
    /\ Len(handles) < MaxHandles
    /\ handles' = Append(handles, handles[i])
    /\ rc' = [raw |-> rc.raw + 1, view |-> rc.view + 1, binding |-> rc.binding + 1]
    /\ UNCHANGED << ctor, texture, view, binding, encoder, queue, submitted, pc, call,
                    buffer, mapping, pixels, progressed, hung, results >>

\* A Texture (or the Drawable holding it) goes out of scope.
Drop(i) ==
    /\ pc = "idle"
    /\ i \in 1 .. Len(handles)
    /\ handles' = [k \in 1 .. Len(handles) - 1 |-> IF k < i THEN handles[k] ELSE handles[k + 1]]
    /\ rc' = [raw |-> rc.raw - 1, view |-> rc.view - 1, binding |-> rc.binding - 1]
    /\ texture' = Released(texture, rc.raw - 1)
    /\ view' = Released(view, rc.view - 1)
    /\ binding' = Released(binding, rc.binding - 1)
    /\ UNCHANGED << ctor, encoder, queue, submitted, pc, call, buffer, mapping, pixels,
                    progressed, hung, results >>

\* ---------------------------------------------------------------- Drawable
\* Number of fill commands in the command buffers submitted so far (each of
\* them ends with the copy of read_pixels).
RECURSIVE FillsSubmitted(_)
FillsSubmitted(n) ==
    IF n = 0 THEN 0 ELSE FillsSubmitted(n - 1) + Len(submitted[n]) - 1

\* The caller records a render pass into the Drawable's target() that fills
\* it with colour c.
RecordFill(c) ==
    /\ ctor.kind = "drawable"
    /\ pc = "idle"
    /\ Len(handles) >= 1
    /\ Len(results) < MaxReads
    /\ Len(encoder) + FillsSubmitted(Len(submitted)) < MaxFills
    /\ encoder' = Append(encoder, [op |-> "fill", color |-> c])
    /\ UNCHANGED << ctor, texture, view, binding, rc, handles, queue, submitted, pc, call,
                    buffer, mapping, pixels, progressed, hung, results >>

\* buffer_size: 4 bytes for each pixel of the drawable's texture.
BufferSize(tex) == BytesPerPixel * tex.width * tex.height

\* A copy that assumes rows padded by one pixel.
ReadbackCopyPadded(tex) ==
    [op |-> "copy_texture_to_buffer",
     mip_level |-> 0, array_layer |-> 0, offset |-> 0,
     row_pitch |-> BytesPerPixel * tex.width + BytesPerPixel, image_height |-> tex.height,
     extent |-> [width |-> tex.width, height |-> tex.height, depth |-> 1]]

\* A copy in the wrong direction: from a zeroed buffer into the texture.
ReadbackCopyReversed(tex) ==
    [op |-> "copy_buffer_to_texture",
     buffer |-> [k \in 1 .. BufferSize(tex) |-> 0], offset |-> 0,
     row_pitch |-> BytesPerPixel * tex.width, image_height |-> tex.height,
     array_layer |-> 0, mip_level |-> 0,
     extent |-> [width |-> tex.width, height |-> tex.height, depth |-> 1]]

\* The copy_texture_to_buffer command of read_pixels: layer 0, mip 0, the
\* whole extent, into the staging buffer with rows of 4 * width bytes.
ReadbackCopy(tex) ==
    [op |-> "copy_texture_to_buffer",
     mip_level |-> 0, array_layer |-> 0, offset |-> 0,
     row_pitch |-> BytesPerPixel * tex.width, image_height |-> tex.height,
     extent |-> [width |-> tex.width, height |-> tex.height, depth |-> 1]]

\* The copy recorded ahead of the caller's commands.
ReadbackStreamCopyFirst(enc, copy) == << copy >> \o enc

\* The command stream read_pixels submits: the caller's commands, then the copy.
ReadbackStream(enc, copy) == Append(enc, copy)

\* read_pixels up to queue.submit: the staging buffer is created, the copy is
\* recorded into the caller's encoder, the encoder is finished and submitted.
\* i is the handle the method is called on, g what the new buffer holds.
ReadPixelsSubmit(i, g) ==
    /\ ctor.kind = "drawable"
    /\ pc = "idle"
    /\ i \in 1 .. Len(handles)
    /\ Len(results) < MaxReads
    /\ LET tex == handles[i]
           stream == ReadbackStream(encoder, ReadbackCopy(tex))
       IN  /\ buffer' = [exists |-> TRUE, size |-> BufferSize(tex),
                         data |-> [k \in 1 .. BufferSize(tex) |-> g]]
           /\ queue' = Append(queue, stream)
           /\ submitted' = Append(submitted, stream)
    /\ call' = [self |-> i, stream |-> encoder]
    /\ encoder' = << >>
    /\ pc' = "submitted"
    /\ UNCHANGED << ctor, texture, view, binding, rc, handles, mapping, pixels, progressed,
                    hung, results >>

\* The poll entered without a map request having been made.
ReadPixelsPollOnly ==
    /\ pc = "submitted"
    /\ pixels' = EmptyCell
    /\ progressed' = FALSE
    /\ pc' = "poll"
    /\ UNCHANGED << ctor, texture, view, binding, rc, handles, encoder, queue, submitted,
                    call, buffer, mapping, hung, results >>

\* read_pixels from the result cell to the poll: a new empty cell, the map
\* request over the whole buffer, and the call of device.poll(true).
ReadPixelsMap ==
    /\ pc = "submitted"
    /\ pixels' = EmptyCell
    /\ mapping' = [pending |-> TRUE, offset |-> 0, size |-> buffer.size, result |-> "none"]
    /\ progressed' = FALSE
    /\ pc' = "poll"
    /\ UNCHANGED << ctor, texture, view, binding, rc, handles, encoder, queue, submitted,
                    call, buffer, hung, results >>

\* ImageBuffer::from_raw(width, height, buf) is Some when buf holds at least
\* the width * height pixels.
FromRawFits(width, height, len) == BytesPerPixel * width * height <= len

\* read_pixels after the poll: the cell is read and unwrapped, the image is
\* built; unwrap of an empty cell and expect of a None image panic.
ReadPixelsFinish ==
    /\ pc = "polled"
    /\ LET tex == handles[call.self]
       IN  IF pixels.some /\ FromRawFits(tex.width, tex.height, Len(pixels.data))
           THEN /\ results' = Append(results,
                        [image |-> [width |-> tex.width, height |-> tex.height,
                                    raw |-> pixels.data],
                         mapping |-> mapping.result,
                         stream |-> call.stream])
                /\ pc' = "idle"
           ELSE /\ results' = results
                /\ pc' = "aborted"
    /\ buffer' = NoBuffer
    /\ call' = NoCall
    /\ UNCHANGED << ctor, texture, view, binding, rc, handles, encoder, queue, submitted,
                    mapping, pixels, progressed, hung >>

Next ==
    \/ \E image \in Images : TextureNew(image)
    \/ \E layers \in ShortLists \cup LongLists : TextureNewArray(layers)
    \/ \E w \in 0 .. MaxDim, h \in 0 .. MaxDim : DrawableNew(w, h)
    \/ \E i \in 1 .. MaxHandles : Clone(i)
    \/ \E i \in 1 .. MaxHandles : Drop(i)
    \/ \E c \in Colors : RecordFill(c)
    \/ \E i \in 1 .. MaxHandles, g \in GarbageBytes : ReadPixelsSubmit(i, g)
    \/ ReadPixelsMap
    \/ ReadPixelsFinish
    \/ DeviceExecute
    \/ \E ok \in BOOLEAN : DeviceFireCallback(ok)
    \/ PollReturn
    \/ DeviceHang

Spec == Init /\ [][Next]_vars

\* The device keeps executing and calling back unless it hangs, and the caller
\* runs read_pixels to its end without pausing.
FairSpec ==
    /\ Spec
    /\ WF_vars(DeviceExecute)
    /\ WF_vars(\E ok \in BOOLEAN : DeviceFireCallback(ok))
    /\ WF_vars(PollReturn)
    /\ WF_vars(ReadPixelsMap)
    /\ WF_vars(ReadPixelsFinish)

\* ================================================================== claims
Created == ctor.kind \in { "new", "new_array", "drawable" }

\* The caller's commands of the read_pixels calls 1 .. i that returned, in order.
RECURSIVE StreamsUpTo(_)
StreamsUpTo(i) == IF i = 0 THEN << >> ELSE StreamsUpTo(i - 1) \o results[i].stream

\* Whether every pixel (x, y) of the image, rows 4 * width bytes apart, holds
\* colour c as B,G,R,A.
SolidBgra(image, c) ==
    \A x \in 0 .. image.width - 1, y \in 0 .. image.height - 1 :
        LET at == y * (BytesPerPixel * image.width) + BytesPerPixel * x
        IN  /\ image.raw[at + 1] = c[3]
            /\ image.raw[at + 2] = c[2]
            /\ image.raw[at + 3] = c[1]
            /\ image.raw[at + 4] = c[4]

\* C1 (as claimed): a read_pixels call whose mapping callback reported failure
\* never returns an image, whatever the drawable's width and height.
C1_FailedMappingReturnsNoImage ==
    \A i \in 1 .. Len(results) : results[i].mapping # "err"

\* C2 (as claimed): when the poll has returned and the cell is about to be
\* read, the mapping callback has fired and the cell is populated.
C2_CellPopulatedAfterPoll ==
    pc = "polled" => pixels.some

\* C3: a returned image of a drawable at least 1 x 1, read with a successful
\* mapping after its target was filled with a solid colour, has exactly
\* 4 * w * h bytes and every pixel, row-major with row pitch 4 * w, is the
\* last fill colour as B,G,R,A.
C3_SolidColourRoundTrip ==
    \A i \in 1 .. Len(results) :
        LET r == results[i]
            fills == StreamsUpTo(i)
        IN  (r.mapping = "ok" /\ r.image.width >= 1 /\ r.image.height >= 1 /\ fills # << >>)
            => /\ Len(r.image.raw) = 4 * r.image.width * r.image.height
               /\ SolidBgra(r.image, fills[Len(fills)].color)

C3_Witness ==
    \E i \in 1 .. Len(results) :
        /\ results[i].mapping = "ok"
        /\ results[i].image.width = 2 /\ results[i].image.height = 2
        /\ results[i].stream # << >>

\* C4: two consecutive read_pixels calls with no rendering recorded between
\* them return the same image, and the handles' width, height and layers stay
\* what the constructor set.
C4_ReadbackIdempotent ==
    /\ \A i \in 1 .. Len(results) - 1 :
           results[i + 1].stream = << >> => results[i + 1].image = results[i].image
    /\ ctor.kind = "drawable" =>
           \A k \in 1 .. Len(handles) :
               handles[k] = [width |-> ctor.width, height |-> ctor.height, layers |-> 1]

C4_Witness ==
    /\ Len(results) >= 2
    /\ results[1].stream # << >>
    /\ results[2].stream = << >>
    /\ results[1].mapping = "ok" /\ results[2].mapping = "ok"
    /\ Len(results[2].image.raw) >= BytesPerPixel

\* C5 (as claimed): new_array of N images yields a Texture whose layers field
\* is N, N >= 1, equal to the layer count of the GPU texture and of its view.
C5_LayersEqualsCount ==
    ctor.kind = "new_array" =>
        /\ ctor.count >= 1
        /\ texture.array_layer_count = ctor.count
        /\ view.array_count = ctor.count
        /\ \A k \in 1 .. Len(handles) : handles[k].layers = ctor.count

\* C6 (as claimed): new of a W x H image yields a Texture whose width() and
\* height() are W and H, and the texture extent and the upload's row pitch are
\* computed from W and H.
C6_DimensionsPreserved ==
    ctor.kind = "new" =>
        /\ \A k \in 1 .. Len(handles) :
               handles[k].width = ctor.width /\ handles[k].height = ctor.height
        /\ texture.size.width = ctor.width /\ texture.size.height = ctor.height
        /\ submitted[1][1].row_pitch = BytesPerPixel * ctor.width
        /\ submitted[1][1].image_height = ctor.height

\* C7: the texture, its view and its binding exist exactly while a handle is
\* live, every Rc counts the live handles, and all handles report the same
\* width, height and layers.
C7_SharedUntilLastDrop ==
    Created =>
        /\ texture.exists <=> Len(handles) >= 1
        /\ view.exists <=> Len(handles) >= 1
        /\ binding.exists <=> Len(handles) >= 1
        /\ rc = [raw |-> Len(handles), view |-> Len(handles), binding |-> Len(handles)]
        /\ \A j, k \in 1 .. Len(handles) : handles[j] = handles[k]

C7_Witness ==
    /\ Created
    /\ Len(handles) >= 2
    /\ texture.exists /\ view.exists /\ binding.exists

\* C8 (as claimed): built from N >= 1 buffers, the texture was uploaded by
\* exactly one submitted copy_buffer_to_texture whose source is the staging
\* buffer and which covers all N layers of the texture; a Drawable is built
\* without any command being submitted.
C8_OneCopyCoversAllLayers ==
    /\ ctor.kind \in { "new", "new_array" } =>
           /\ Len(submitted) = 1
           /\ Len(submitted[1]) = 1
           /\ LET copy == submitted[1][1]
              IN  /\ copy.op = "copy_buffer_to_texture"
                  /\ copy.array_layer = 0
                  /\ copy.array_layer + copy.extent.depth = texture.array_layer_count
    /\ (ctor.kind = "drawable" /\ pc = "idle" /\ results = << >>) => submitted = << >>

\* C9: the stream read_pixels submits is the caller's commands followed by
\* the copy; the map is requested only after the submission and the cell is
\* filled only inside the poll; and the bytes a successful callback stores
\* are the texture's contents after the whole stream was executed.
C9_ReadbackOrder ==
    /\ pc \in { "submitted", "poll", "polled" } =>
           /\ Len(submitted) >= 1
           /\ LET s == submitted[Len(submitted)]
              IN  /\ SubSeq(s, 1, Len(s) - 1) = call.stream
                  /\ s[Len(s)].op = "copy_texture_to_buffer"
    /\ pc = "submitted" => ~mapping.pending
    /\ pc = "poll" /\ mapping.pending => ~pixels.some
    /\ (pc \in { "poll", "polled" } /\ ~mapping.pending /\ mapping.result = "ok") =>
           /\ queue = << >>
           /\ pixels.some
           /\ pixels.data = SubSeq(texture.data, 1, LayerBytes(texture.size))
           /\ call.stream # << >> =>
                  SolidBgra([width |-> texture.size.width, height |-> texture.size.height,
                             raw |-> pixels.data],
                            call.stream[Len(call.stream)].color)

C9_Witness ==
    /\ pc = "polled"
    /\ mapping.result = "ok" /\ ~mapping.pending
    /\ call.stream # << >>
    /\ Len(pixels.data) >= BytesPerPixel

\* C10: unless the device hangs, a read_pixels call that was submitted
\* finishes (returns or panics); and while the device is hung with the map
\* still pending, the call does not return.
C10_FinishesUnlessHung ==
    /\ (pc \in { "submitted", "poll", "polled" }) ~> (pc \in { "idle", "aborted" } \/ hung)
    /\ [][(hung /\ mapping.pending /\ pc \in { "poll", "polled" })
            => (hung' /\ mapping'.pending /\ pc' # "idle")]_vars

C10_Witness ==
    /\ hung
    /\ pc = "poll"
    /\ mapping.pending
    /\ ~progressed

====
